---- MODULE Spec2Model ----
(***************************************************************************)
(* Model of influx_tsm's shard inventory: the driver (main), the directory *)
(* scanner (Database.Shards), the format detector (shardFormat) and the    *)
(* inventory operations (ShardInfos.Less / Filter / Databases,             *)
(* ShardInfo.FormatAsString).                                              *)
(*                                                                         *)
(* Go strings that are compared with < are modelled as sequences of bytes, *)
(* so that the comparison is the bytewise lexicographic one of Go.         *)
(* Strings that are only tested for equality (bucket names, keys, error    *)
(* texts, program positions) are TLA+ strings.                             *)
(***************************************************************************)
EXTENDS Integers, Sequences, FiniteSets, TLC

VARIABLES
    fs,         \* the filesystem: path (sequence of names) -> node
    handles,    \* paths of the bolt stores currently open in this process
    pc,         \* position of the (single-threaded) program
    dbs,        \* main: the database names ioutil.ReadDir returned
    di,         \* main: index of the database being scanned
    shards,     \* main: the collected inventory (var shards)
    rps,        \* Shards: retention policies still to visit
    rp,         \* Shards: retention policy being visited
    shs,        \* Shards: shard names still to visit in rp
    rpErr,      \* Shards: the err assigned by rpfd.Readdirnames (line 123)
    shardInfos, \* Shards: var shardInfos
    sfPath,     \* shardFormat: its path argument
    sfFi,       \* shardFormat: size taken from fi (f.Stat)
    sfFormat,   \* shardFormat: var format
    sfViewErr,  \* shardFormat: err returned by db.View
    sfRet,      \* shardFormat: the last returned (format, size, err)
    ret,        \* Shards: the last returned (infos, err)
    inv,        \* inventory operations: the receiver s
    inv0,       \* inventory operations: the receiver as it was before the call
    arg,        \* inventory operations: the arguments (fmt of Filter; i, j)
    op,         \* inventory operations: which operation produced out
    out         \* inventory operations: the returned value, if there is one

vars == <<fs, handles, pc, dbs, di, shards, rps, rp, shs, rpErr, shardInfos,
          sfPath, sfFi, sfFormat, sfViewErr, sfRet, ret, inv, inv0, arg, op, out>>

scanVars == <<fs, handles, pc, dbs, di, shards, rps, rp, shs, rpErr,
              shardInfos, sfPath, sfFi, sfFormat, sfViewErr, sfRet, ret>>

invVars == <<inv, inv0, arg, op, out>>

----------------------------------------------------------------------------
\* EngineFormat constants (iota).
b1 == 0
bz1 == 1
tsm1 == 2

\* The zero EngineFormat, returned beside an error.
ZeroFormat == 0

\* Names, as byte sequences: "d", "db1", "db2", "rp", "rp2", "s_dir", "s_flat".
dataDir == <<100>>
db1 == <<100, 98, 49>>
db2 == <<100, 98, 50>>
rpA == <<114, 112>>
rpB == <<114, 112, 50>>
s_dir == <<115, 95, 100, 105, 114>>
s_flat == <<115, 95, 102, 108, 97, 116>>

\* Go's < on strings: bytewise lexicographic order.
StrLess(a, b) ==
    \E k \in 1..(Len(a) + 1) :
        /\ k <= Len(b)
        /\ \A i \in 1..(k - 1) : a[i] = b[i]
        /\ (k = Len(a) + 1 \/ a[k] < b[k])

\* path.Base / filepath.Join on paths kept as sequences of names.
Base(p) == IF Len(p) = 0 THEN <<46>> ELSE p[Len(p)]
Join(p, name) == Append(p, name)

Swap(s, i, j) == [s EXCEPT ![i] = s[j], ![j] = s[i]]

----------------------------------------------------------------------------
\* ShardInfo.FormatAsString; "panic" stands for the panic of the default case.
FormatAsString(si) ==
    CASE si.Format = tsm1 -> "tsm1"
      [] si.Format = b1 -> "b1"
      [] si.Format = bz1 -> "bz1"
      [] OTHER -> "panic"

\* A comparator that does compare the paths of its two arguments.
LessByPath(s, i, j) ==
    IF s[i].Database = s[j].Database
    THEN IF s[i].RetentionPolicy = s[j].RetentionPolicy
         THEN StrLess(s[i].Path, s[j].Path)
         ELSE StrLess(s[i].RetentionPolicy, s[j].RetentionPolicy)
    ELSE StrLess(s[i].Database, s[j].Database)

\* ShardInfos.Less (indices are 1-based here).
Less(s, i, j) ==
    IF s[i].Database = s[j].Database
    THEN IF s[i].RetentionPolicy = s[j].RetentionPolicy
         THEN StrLess(s[i].Path, s[i].Path)
         ELSE StrLess(s[i].RetentionPolicy, s[j].RetentionPolicy)
    ELSE StrLess(s[i].Database, s[j].Database)

\* sort.Sort on a slice of up to 6 entries is, in every Go release, an
\* insertion sort through Less and Swap:
\*   for i := a+1; i < b; i++ { for j := i; j > a && Less(j, j-1); j-- { Swap(j, j-1) } }
RECURSIVE SinkInfo(_, _)
SinkInfo(s, j) ==
    IF j > 1 /\ Less(s, j, j - 1) THEN SinkInfo(Swap(s, j, j - 1), j - 1) ELSE s

RECURSIVE SortFrom(_, _)
SortFrom(s, i) == IF i > Len(s) THEN s ELSE SortFrom(SinkInfo(s, i), i + 1)

SortInfos(s) == SortFrom(s, 2)

\* sort.Strings, likewise.
RECURSIVE SinkStr(_, _)
SinkStr(s, j) ==
    IF j > 1 /\ StrLess(s[j], s[j - 1]) THEN SinkStr(Swap(s, j, j - 1), j - 1) ELSE s

RECURSIVE SortStrFrom(_, _)
SortStrFrom(s, i) == IF i > Len(s) THEN s ELSE SortStrFrom(SinkStr(s, i), i + 1)

SortStrings(s) == SortStrFrom(s, 2)

\* A filter that drops the entries after the first one it removes.
RECURSIVE FilterTruncating(_, _)
FilterTruncating(s, f) ==
    IF s = <<>> THEN <<>>
    ELSE IF Head(s).Format = f THEN <<>>
    ELSE <<Head(s)>> \o FilterTruncating(Tail(s), f)

\* ShardInfos.Filter: a fresh slice with the entries whose Format is not f.
RECURSIVE Filter(_, _)
Filter(s, f) ==
    IF s = <<>> THEN <<>>
    ELSE IF Head(s).Format = f THEN Filter(Tail(s), f)
    ELSE <<Head(s)>> \o Filter(Tail(s), f)

\* All orders in which the elements of a finite set can be enumerated.
Perms(S) ==
    {p \in [1..Cardinality(S) -> S] : \A i, j \in 1..Cardinality(S) : p[i] = p[j] => i = j}

\* The keys of dbm in ShardInfos.Databases.
DbKeys(s) == {s[i].Database : i \in 1..Len(s)}

\* Databases without the final sort.Strings.
DatabasesUnsorted(s, order) == order

\* ShardInfos.Databases: the map keys, ranged over in the order `order`
\* (Go's map iteration order is unspecified), then sorted.
Databases(s, order) == SortStrings(order)

----------------------------------------------------------------------------
\* The filesystem.  A node is a directory or a regular file:
\*   perm     os.Open of the node succeeds
\*   ioerr    (directory) reading its entries fails part way
\*   statErr  f.Stat on the opened node fails
\*   size     the size f.Stat reports
\*   locked   (file) another process holds the store's file lock
\*   magic    (file) the content is a valid bolt database
\*   viewErr  (file) a read transaction on the store fails (the err that
\*            db.View hands to the return at the end of shardFormat)
\*   buckets  (file) the top-level buckets: records [name, kv], kv a set of
\*            <<key, value>> pairs
Node(kind, perm, ioerr, statErr, size, locked, magic, viewErr, buckets) ==
    [kind |-> kind, perm |-> perm, ioerr |-> ioerr, statErr |-> statErr,
     size |-> size, locked |-> locked, magic |-> magic, viewErr |-> viewErr,
     buckets |-> buckets]

DirNode(perm, ioerr) == Node("dir", perm, ioerr, FALSE, 64, FALSE, FALSE, FALSE, {})
BoltFile(buckets) == Node("file", TRUE, FALSE, FALSE, 32, FALSE, TRUE, FALSE, buckets)

Bkt(name, kv) == [name |-> name, kv |-> kv]

ShardDir == DirNode(TRUE, FALSE)
FileNoPerm == [BoltFile({}) EXCEPT !.perm = FALSE]
FileStatErr == [BoltFile({}) EXCEPT !.statErr = TRUE]
FileLocked == [BoltFile({}) EXCEPT !.locked = TRUE]
FileGarbage == [BoltFile({}) EXCEPT !.magic = FALSE]
FileEmpty == [BoltFile({}) EXCEPT !.magic = FALSE, !.size = 0]
FileViewErr == [BoltFile({Bkt("meta", {<<"format", "v2">>})}) EXCEPT !.viewErr = TRUE]
BoltNoMeta == BoltFile({Bkt("series", {})})
BoltV1 == BoltFile({Bkt("meta", {<<"format", "v1">>}), Bkt("series", {})})
BoltV2 == BoltFile({Bkt("meta", {<<"format", "v2">>})})
BoltV3 == BoltFile({Bkt("meta", {<<"format", "v3">>, <<"other", "v1">>})})
BoltNoKey == BoltFile({Bkt("meta", {<<"other", "v1">>})})

ShardNodes ==
    {ShardDir, FileNoPerm, FileStatErr, FileLocked, FileGarbage, FileEmpty,
     FileViewErr, BoltNoMeta, BoltV1, BoltV2, BoltV3, BoltNoKey}

\* The empty tree, and the trees holding node n at path p for the n of S,
\* or nothing at p.
NoFile == [p \in {} |-> ShardDir]
Opt(p, S) == {NoFile} \cup {p :> n : n \in S}

DataPath == <<dataDir>>
Db1Path == <<dataDir, db1>>
Db2Path == <<dataDir, db2>>

\* The faults a directory of the tree can have, and how many of them are
\* present together.
MaxDirFaults == 1

DirFaults == {"root_io", "db1_perm", "db1_io", "rpA_perm", "rpA_io", "db2_io", "db2rp_perm"}

FaultSets == {F \in SUBSET DirFaults : Cardinality(F) <= MaxDirFaults}

Dirs(F) ==
    (DataPath :> DirNode(TRUE, "root_io" \in F))
    @@ (Db1Path :> DirNode("db1_perm" \notin F, "db1_io" \in F))
    @@ (Join(Db1Path, rpA) :> DirNode("rpA_perm" \notin F, "rpA_io" \in F))
    @@ (Db2Path :> DirNode(TRUE, "db2_io" \in F))
    @@ (Join(Db2Path, rpA) :> DirNode("db2rp_perm" \notin F, FALSE))

\* db1/rp2: absent, a stray regular file, or a directory with one shard.
RpBTrees ==
    {NoFile, Join(Db1Path, rpB) :> BoltNoMeta}
    \cup {(Join(Db1Path, rpB) :> ShardDir) @@ (<<dataDir, db1, rpB, s_flat>> :> n) :
            n \in {BoltV2, FileEmpty}}

InitFs ==
    {Dirs(F) @@ a @@ b @@ c @@ d @@ e :
        F \in FaultSets,
        a \in Opt(<<dataDir, db1, rpA, s_dir>>, ShardNodes),
        b \in Opt(<<dataDir, db1, rpA, s_flat>>, ShardNodes \ {FileNoPerm, FileStatErr, FileViewErr, BoltV3, BoltNoKey}),
        c \in RpBTrees,
        d \in Opt(<<dataDir, db2, rpA, s_dir>>, {ShardDir}),
        e \in Opt(<<dataDir, db2, rpA, s_flat>>, {BoltNoMeta, FileGarbage})}

Children(p) ==
    {q[Len(q)] : q \in {q \in DOMAIN fs : Len(q) = Len(p) + 1 /\ SubSeq(q, 1, Len(p)) = p}}

\* os.Open: the error it returns ("nil" for none).
OsOpen(p) == IF fs[p].perm THEN "nil" ELSE "EACCES"

\* File.Readdirnames(-1): the <<names, err>> it can return.  The order is
\* the directory's; on an error the names read so far come back with it.
Readdirnames(p) ==
    IF fs[p].kind # "dir" THEN {<< <<>>, "ENOTDIR" >>}
    ELSE IF fs[p].ioerr
    THEN {<<SubSeq(o, 1, k), "EIO">> : o \in Perms(Children(p)), k \in 0..Cardinality(Children(p))}
    ELSE {<<o, "nil">> : o \in Perms(Children(p))}

\* bolt.Open(path, 0666, &bolt.Options{Timeout: 1s}): the file is opened
\* read-write, its lock is taken within the timeout, an empty file is
\* initialised as a new database, any other file must hold a valid one.
BoltOpenErr(n) ==
    IF n.locked THEN "timeout"
    ELSE IF n.size = 0 THEN "nil"
    ELSE IF ~n.magic THEN "invalid database"
    ELSE "nil"

\* The file as bolt.Open leaves it.
BoltOpenFile(n) ==
    IF ~n.locked /\ n.size = 0
    THEN [n EXCEPT !.size = 16384, !.magic = TRUE, !.buckets = {}]
    ELSE n

\* tx.Bucket(name) # nil, and string(b.Get(key)) for the bucket named name.
HasBucket(n, name) == \E b \in n.buckets : b.name = name
BucketGet(n, name, key) ==
    LET b == CHOOSE b \in n.buckets : b.name = name
    IN IF \E e \in b.kv : e[1] = key
       THEN (CHOOSE e \in b.kv : e[1] = key)[2]
       ELSE ""

\* The closure taking a meta bucket without a "format" key for a b1 store.
ViewFormatMissingKeyB1(n) ==
    IF ~HasBucket(n, "meta") THEN b1
    ELSE IF BucketGet(n, "meta", "format") \in {"", "v1"} THEN b1
    ELSE bz1

\* The closure giving a fourth value to a format marker it does not know.
ViewFormatUnknown(n) ==
    IF ~HasBucket(n, "meta") THEN b1
    ELSE IF BucketGet(n, "meta", "format") = "v1" THEN b1
    ELSE IF BucketGet(n, "meta", "format") = "v2" THEN bz1
    ELSE tsm1 + 1

\* The format the View closure of shardFormat assigns.
ViewFormat(n) ==
    IF ~HasBucket(n, "meta") THEN b1
    ELSE IF BucketGet(n, "meta", "format") = "v1" THEN b1
    ELSE bz1

NoRet == [format |-> ZeroFormat, size |-> 0, err |-> "nil"]
SfReturn(f, sz, e) == [format |-> f, size |-> sz, err |-> e]
ShardsReturned(infos, e) == [infos |-> infos, err |-> e]

\* d.path of the database being scanned, and d.Name().
DPath == Join(DataPath, dbs[di])
DName == Base(DPath)

----------------------------------------------------------------------------
\* The scan: main, Database.Shards and shardFormat, statement by statement.

Init ==
    /\ fs \in InitFs
    /\ handles = {}
    /\ pc = "m_readdir"
    /\ dbs = <<>>
    /\ di = 1
    /\ shards = <<>>
    /\ rps = <<>>
    /\ rp = <<>>
    /\ shs = <<>>
    /\ rpErr = "nil"
    /\ shardInfos = <<>>
    /\ sfPath = <<>>
    /\ sfFi = 0
    /\ sfFormat = ZeroFormat
    /\ sfViewErr = "nil"
    /\ sfRet = NoRet
    /\ ret = ShardsReturned(<<>>, "nil")
    /\ inv = <<>>
    /\ inv0 = <<>>
    /\ arg = b1
    /\ op = "none"
    /\ out = <<>>

\* main: ioutil.ReadDir(dataPath), which returns the entries sorted by name,
\* or exits on its error.
MainReadDir ==
    /\ pc = "m_readdir"
    /\ \E r \in Readdirnames(DataPath) :
        IF OsOpen(DataPath) # "nil" \/ r[2] # "nil"
        THEN /\ pc' = "exit"
             /\ UNCHANGED dbs
        ELSE /\ dbs' = SortStrings(r[1])
             /\ pc' = "m_loop"
    /\ UNCHANGED <<fs, handles, di, shards, rps, rp, shs, rpErr, shardInfos,
                   sfPath, sfFi, sfFormat, sfViewErr, sfRet, ret, invVars>>

\* main: d.Shards() for the next database; Shards opens d.path and lists
\* the retention policies.
ShardsOpen ==
    /\ pc = "m_loop"
    /\ di <= Len(dbs)
    /\ \E r \in Readdirnames(DPath) :
        IF OsOpen(DPath) # "nil"
        THEN /\ ret' = ShardsReturned(<<>>, OsOpen(DPath))
             /\ pc' = "m_ret"
             /\ UNCHANGED rps
        ELSE IF r[2] # "nil"
        THEN /\ ret' = ShardsReturned(<<>>, r[2])
             /\ pc' = "m_ret"
             /\ UNCHANGED rps
        ELSE /\ rps' = r[1]
             /\ pc' = "s_rp"
             /\ UNCHANGED ret
    /\ shardInfos' = <<>>
    /\ rpErr' = "nil"
    /\ sfRet' = NoRet
    /\ UNCHANGED <<fs, handles, dbs, di, shards, rp, shs, sfPath, sfFi,
                   sfFormat, sfViewErr, invVars>>

\* Shards: the next retention policy is opened and its shards are listed;
\* the err of the listing is assigned and not looked at.
ShardsNextRp ==
    /\ pc = "s_rp"
    /\ rps # <<>>
    /\ rp' = Head(rps)
    /\ rps' = Tail(rps)
    /\ \E r \in Readdirnames(Join(DPath, Head(rps))) :
        IF OsOpen(Join(DPath, Head(rps))) # "nil"
        THEN /\ ret' = ShardsReturned(<<>>, OsOpen(Join(DPath, Head(rps))))
             /\ pc' = "m_ret"
             /\ UNCHANGED <<shs, rpErr>>
        ELSE /\ shs' = r[1]
             /\ rpErr' = r[2]
             /\ pc' = "s_shard"
             /\ UNCHANGED ret
    /\ UNCHANGED <<fs, handles, dbs, di, shards, shardInfos, sfPath, sfFi,
                   sfFormat, sfViewErr, sfRet, invVars>>

\* Shards: every retention policy is done; the infos are sorted and returned.
ShardsSortReturn ==
    /\ pc = "s_rp"
    /\ rps = <<>>
    /\ shardInfos' = SortInfos(shardInfos)
    /\ ret' = ShardsReturned(shardInfos', "nil")
    /\ pc' = "m_ret"
    /\ UNCHANGED <<fs, handles, dbs, di, shards, rps, rp, shs, rpErr,
                   sfPath, sfFi, sfFormat, sfViewErr, sfRet, invVars>>

\* Shards: the shards of the retention policy are done.
ShardsRpDone ==
    /\ pc = "s_shard"
    /\ shs = <<>>
    /\ pc' = "s_rp"
    /\ UNCHANGED <<fs, handles, dbs, di, shards, rps, rp, shs, rpErr,
                   shardInfos, sfPath, sfFi, sfFormat, sfViewErr, sfRet, ret, invVars>>

\* shardFormat, called for the next shard: os.Open, f.Stat, f.Close and the
\* directory test.
ShardFormatStat ==
    /\ pc = "s_shard"
    /\ shs # <<>>
    /\ LET path == Join(Join(DPath, rp), Head(shs))
           n == fs[path]
       IN /\ sfPath' = path
          /\ IF OsOpen(path) # "nil"
             THEN /\ sfRet' = SfReturn(ZeroFormat, 0, OsOpen(path))
                  /\ pc' = "s_got"
                  /\ UNCHANGED sfFi
             ELSE IF n.statErr
             THEN /\ sfRet' = SfReturn(ZeroFormat, 0, "EIO")
                  /\ pc' = "s_got"
                  /\ UNCHANGED sfFi
             ELSE IF n.kind = "dir"
             THEN /\ sfRet' = SfReturn(tsm1, n.size, "nil")
                  /\ pc' = "s_got"
                  /\ sfFi' = n.size
             ELSE /\ sfFi' = n.size
                  /\ pc' = "f_open"
                  /\ UNCHANGED sfRet
    /\ sfFormat' = ZeroFormat
    /\ sfViewErr' = "nil"
    /\ UNCHANGED <<fs, handles, dbs, di, shards, rps, rp, shs, rpErr,
                   shardInfos, ret, invVars>>

\* shardFormat: bolt.Open.
ShardFormatOpen ==
    /\ pc = "f_open"
    /\ fs' = [fs EXCEPT ![sfPath] = BoltOpenFile(@)]
    /\ IF BoltOpenErr(fs[sfPath]) # "nil"
       THEN /\ sfRet' = SfReturn(ZeroFormat, 0, BoltOpenErr(fs[sfPath]))
            /\ pc' = "s_got"
            /\ UNCHANGED handles
       ELSE /\ handles' = handles \cup {sfPath}
            /\ pc' = "f_view"
            /\ UNCHANGED sfRet
    /\ UNCHANGED <<dbs, di, shards, rps, rp, shs, rpErr, shardInfos, sfPath,
                   sfFi, sfFormat, sfViewErr, ret, invVars>>

\* shardFormat: db.View and its closure.
ShardFormatView ==
    /\ pc = "f_view"
    /\ IF fs[sfPath].viewErr
       THEN /\ sfViewErr' = "tx failed"
            /\ UNCHANGED sfFormat
       ELSE /\ sfViewErr' = "nil"
            /\ sfFormat' = ViewFormat(fs[sfPath])
    /\ pc' = "f_ret"
    /\ UNCHANGED <<fs, handles, dbs, di, shards, rps, rp, shs, rpErr,
                   shardInfos, sfPath, sfFi, sfRet, ret, invVars>>

\* shardFormat closing the store in its two b1 branches only, instead of by
\* a deferred call.
ShardFormatReturnLeaky ==
    /\ pc = "f_ret"
    /\ sfRet' = SfReturn(sfFormat, sfFi, sfViewErr)
    /\ handles' = IF sfViewErr = "nil" /\ sfFormat = b1 THEN handles \ {sfPath} ELSE handles
    /\ pc' = "s_got"
    /\ UNCHANGED <<fs, dbs, di, shards, rps, rp, shs, rpErr, shardInfos,
                   sfPath, sfFi, sfFormat, sfViewErr, ret, invVars>>

\* shardFormat: return format, fi.Size(), err; the deferred db.Close runs.
ShardFormatReturn ==
    /\ pc = "f_ret"
    /\ sfRet' = SfReturn(sfFormat, sfFi, sfViewErr)
    /\ handles' = handles \ {sfPath}
    /\ pc' = "s_got"
    /\ UNCHANGED <<fs, dbs, di, shards, rps, rp, shs, rpErr, shardInfos,
                   sfPath, sfFi, sfFormat, sfViewErr, ret, invVars>>

\* A ShardInfo whose Path is the retention policy instead of the shard.
NewShardInfoRpAsPath ==
    [Database |-> DName, RetentionPolicy |-> Base(<<rp>>), Path |-> rp,
     Format |-> sfRet.format, Size |-> sfRet.size]

\* The ShardInfo Shards builds from what shardFormat returned.
NewShardInfo ==
    [Database |-> DName, RetentionPolicy |-> Base(<<rp>>), Path |-> Head(shs),
     Format |-> sfRet.format, Size |-> sfRet.size]

\* Shards skipping a shard whose format could not be detected.
ShardsGotSkipping ==
    /\ pc = "s_got"
    /\ shardInfos' = IF sfRet.err # "nil" THEN shardInfos
                     ELSE Append(shardInfos, NewShardInfo)
    /\ shs' = Tail(shs)
    /\ pc' = "s_shard"
    /\ UNCHANGED <<fs, handles, dbs, di, shards, rps, rp, rpErr, sfPath, sfFi,
                   sfFormat, sfViewErr, sfRet, ret, invVars>>

\* Shards: shardFormat has returned; its error is returned, or the
\* ShardInfo is appended.
ShardsGot ==
    /\ pc = "s_got"
    /\ IF sfRet.err # "nil"
       THEN /\ ret' = ShardsReturned(<<>>, sfRet.err)
            /\ pc' = "m_ret"
            /\ UNCHANGED <<shardInfos, shs>>
       ELSE /\ shardInfos' = Append(shardInfos, NewShardInfo)
            /\ shs' = Tail(shs)
            /\ pc' = "s_shard"
            /\ UNCHANGED ret
    /\ UNCHANGED <<fs, handles, dbs, di, shards, rps, rp, rpErr, sfPath, sfFi,
                   sfFormat, sfViewErr, sfRet, invVars>>

\* main: Shards has returned; exit on its error, else append its infos.
MainGot ==
    /\ pc = "m_ret"
    /\ IF ret.err # "nil"
       THEN /\ pc' = "exit"
            /\ UNCHANGED <<shards, di>>
       ELSE /\ shards' = shards \o ret.infos
            /\ di' = di + 1
            /\ pc' = "m_loop"
    /\ UNCHANGED <<fs, handles, dbs, rps, rp, shs, rpErr, shardInfos, sfPath,
                   sfFi, sfFormat, sfViewErr, sfRet, ret, invVars>>

\* main: sort.Sort(ShardInfos(shards)) after the last database.
MainSort ==
    /\ pc = "m_loop"
    /\ di > Len(dbs)
    /\ shards' = SortInfos(shards)
    /\ pc' = "m_filter"
    /\ UNCHANGED <<fs, handles, dbs, di, rps, rp, shs, rpErr, shardInfos,
                   sfPath, sfFi, sfFormat, sfViewErr, sfRet, ret, invVars>>

\* main: shards = ShardInfos(shards).Filter(tsm1), then the report.
MainFilter ==
    /\ pc = "m_filter"
    /\ shards' = Filter(shards, tsm1)
    /\ pc' = "done"
    /\ UNCHANGED <<fs, handles, dbs, di, rps, rp, shs, rpErr, shardInfos,
                   sfPath, sfFi, sfFormat, sfViewErr, sfRet, ret, invVars>>

Next ==
    \/ MainReadDir
    \/ ShardsOpen
    \/ ShardsNextRp
    \/ ShardsSortReturn
    \/ ShardsRpDone
    \/ ShardFormatStat
    \/ ShardFormatOpen
    \/ ShardFormatView
    \/ ShardFormatReturn
    \/ ShardsGot
    \/ MainGot
    \/ MainSort
    \/ MainFilter

Spec == Init /\ [][Next]_vars

----------------------------------------------------------------------------
\* The inventory operations on their own, applied to arbitrary inventories.

MaxLen == 3

Info(d, r, p, f) ==
    [Database |-> d, RetentionPolicy |-> r, Path |-> p, Format |-> f, Size |-> 32]

InvInfos ==
    {Info(d, rpA, p, f) : d \in {db1, db2}, p \in {s_dir, s_flat}, f \in {b1, tsm1}}
    \cup {Info(db1, rpB, s_flat, bz1), Info(dataDir, rpA, s_dir, bz1)}

Inventories == UNION {[1..n -> InvInfos] : n \in 0..MaxLen}

InitInv ==
    /\ inv \in Inventories
    /\ inv0 = inv
    /\ arg = b1
    /\ op = "none"
    /\ out = <<>>
    /\ fs = NoFile
    /\ handles = {}
    /\ pc = "inventory"
    /\ dbs = <<>>
    /\ di = 1
    /\ shards = <<>>
    /\ rps = <<>>
    /\ rp = <<>>
    /\ shs = <<>>
    /\ rpErr = "nil"
    /\ shardInfos = <<>>
    /\ sfPath = <<>>
    /\ sfFi = 0
    /\ sfFormat = ZeroFormat
    /\ sfViewErr = "nil"
    /\ sfRet = NoRet
    /\ ret = ShardsReturned(<<>>, "nil")

\* s.Len()
InvLen ==
    /\ op = "none"
    /\ out' = Len(inv)
    /\ op' = "Len"
    /\ UNCHANGED <<inv, inv0, arg, scanVars>>

\* s.Swap(i, j): writes the receiver, returns nothing.
InvSwap ==
    /\ op = "none"
    /\ \E i, j \in 1..Len(inv) :
        /\ arg' = <<i, j>>
        /\ inv' = Swap(inv, i, j)
    /\ op' = "Swap"
    /\ UNCHANGED <<inv0, out, scanVars>>

\* s.Less(i, j)
InvLess ==
    /\ op = "none"
    /\ \E i, j \in 1..Len(inv) :
        /\ arg' = <<i, j>>
        /\ out' = Less(inv, i, j)
    /\ op' = "Less"
    /\ UNCHANGED <<inv, inv0, scanVars>>

\* sort.Sort(s): sorts the receiver in place, returns nothing.
InvSort ==
    /\ op = "none"
    /\ inv' = SortInfos(inv)
    /\ op' = "Sort"
    /\ UNCHANGED <<inv0, arg, out, scanVars>>

\* s.Filter(f): returns a fresh slice, the receiver is not written.
InvFilter ==
    /\ op = "none"
    /\ \E f \in {b1, bz1, tsm1} :
        /\ arg' = f
        /\ out' = Filter(inv, f)
    /\ op' = "Filter"
    /\ UNCHANGED <<inv, inv0, scanVars>>

\* s.Databases()
InvDatabases ==
    /\ op = "none"
    /\ \E order \in Perms(DbKeys(inv)) : out' = Databases(inv, order)
    /\ op' = "Databases"
    /\ UNCHANGED <<inv, inv0, arg, scanVars>>

NextInv == InvLen \/ InvSwap \/ InvLess \/ InvSort \/ InvFilter \/ InvDatabases

SpecInv == InitInv /\ [][NextInv]_vars

----------------------------------------------------------------------------
\* Properties.

Formats == {b1, bz1, tsm1}

\* What the documentation says of a store: it has a "meta" namespace, and
\* the value of meta's "format" key is v.
MetaPresent(n) == \E b \in n.buckets : b.name = "meta"
MetaFormatIs(n, v) == \E b \in n.buckets : b.name = "meta" /\ <<"format", v>> \in b.kv
DocFormat(n) ==
    IF n.kind = "dir" THEN tsm1
    ELSE IF ~MetaPresent(n) \/ MetaFormatIs(n, "v1") THEN b1
    ELSE bz1

\* C1: when shardFormat has returned for a path that opens and stats, the
\* format is TSM1 exactly if the entry is a directory; for a file that opened
\* as a store it is B1 if the store has no "meta" namespace or meta's
\* "format" is "v1", and BZ1 otherwise.
C1_DetectorClassifies ==
    pc = "s_got" =>
        /\ (fs[sfPath].perm /\ ~fs[sfPath].statErr)
               => (sfRet.format = tsm1 <=> fs[sfPath].kind = "dir")
        /\ (fs[sfPath].kind = "file" /\ sfRet.err = "nil")
               => sfRet.format = DocFormat(fs[sfPath])

C1_Witness ==
    /\ pc = "s_got"
    /\ sfRet.err = "nil"
    /\ sfRet.format = bz1
    /\ MetaPresent(fs[sfPath])
    /\ \A v \in {"v1", "v2", "v3"} : ~MetaFormatIs(fs[sfPath], v)

\* The nodes below the database being scanned.
Under(p) == {q \in DOMAIN fs : Len(q) > Len(p) /\ SubSeq(q, 1, Len(p)) = p}
RpPaths == {q \in Under(DPath) : Len(q) = Len(DPath) + 1}
ShardPaths == {q \in Under(DPath) : Len(q) = Len(DPath) + 2}

DirFails(n) == ~n.perm \/ n.ioerr \/ n.kind # "dir"
ShardFails(n) ==
    \/ ~n.perm
    \/ n.statErr
    \/ n.kind = "file" /\ (n.locked \/ (n.size # 0 /\ ~n.magic) \/ n.viewErr)

NothingFails ==
    /\ ~DirFails(fs[DPath])
    /\ \A q \in RpPaths : ~DirFails(fs[q])
    /\ \A q \in ShardPaths : ~ShardFails(fs[q])

Described(si) ==
    [Database |-> si.Database, RetentionPolicy |-> si.RetentionPolicy,
     Path |-> si.Path, Format |-> si.Format]

ExpectedInfos ==
    {[Database |-> dbs[di], RetentionPolicy |-> q[Len(q) - 1], Path |-> q[Len(q)],
      Format |-> DocFormat(fs[q])] : q \in ShardPaths}

\* The layout of the end-to-end example: db1 and db2, each with rp holding
\* the directory s_dir and the store file s_flat without a meta namespace.
EndToEndLayout ==
    /\ DOMAIN fs = {DataPath, Db1Path, Db2Path, Join(Db1Path, rpA), Join(Db2Path, rpA),
                    <<dataDir, db1, rpA, s_dir>>, <<dataDir, db1, rpA, s_flat>>,
                    <<dataDir, db2, rpA, s_dir>>, <<dataDir, db2, rpA, s_flat>>}
    /\ \A q \in DOMAIN fs : Len(q) <= 3 => ~DirFails(fs[q])
    /\ \A d \in {db1, db2} :
        /\ fs[<<dataDir, d, rpA, s_dir>>] = ShardDir
        /\ fs[<<dataDir, d, rpA, s_flat>>] = BoltNoMeta

\* C2: when nothing fails, Shards succeeds and returns exactly one ShardInfo
\* per shard entry of the database, none missing and none twice, with the
\* database name, the retention policy name, the shard name and the detected
\* format; on the end-to-end layout the driver collects 4 records, the two
\* s_dir as TSM1 and the two s_flat as B1.
C2_ScanComplete ==
    /\ (pc = "m_ret" /\ NothingFails) =>
        /\ ret.err = "nil"
        /\ {Described(ret.infos[i]) : i \in 1..Len(ret.infos)} = ExpectedInfos
        /\ Len(ret.infos) = Cardinality(ShardPaths)
    /\ (pc = "m_filter" /\ EndToEndLayout) =>
        /\ Len(shards) = 4
        /\ {Described(shards[i]) : i \in 1..4} =
              {[Database |-> d, RetentionPolicy |-> rpA, Path |-> s_dir, Format |-> tsm1] :
                   d \in {db1, db2}}
              \cup {[Database |-> d, RetentionPolicy |-> rpA, Path |-> s_flat, Format |-> b1] :
                   d \in {db1, db2}}

C2_Witness == pc = "m_filter" /\ EndToEndLayout /\ Len(shards) = 4

\* C3: when the open or the listing of the database directory or of one of
\* its retention-policy directories fails, Shards returns an error and no
\* ShardInfo.
C3_DirFailureAborts ==
    (pc = "m_ret" /\ (DirFails(fs[DPath]) \/ \E q \in RpPaths : DirFails(fs[q])))
        => (ret.err # "nil" /\ ret.infos = <<>>)

\* C4: once shardFormat has returned an error, Shards does nothing but
\* return that error with no ShardInfo, and main exits: the shard is not
\* skipped and no record collected before it is returned.
C4_DetectorFailureAborts ==
    sfRet.err # "nil" =>
        /\ pc \in {"s_got", "m_ret", "exit"}
        /\ pc \in {"m_ret", "exit"} => (ret.err = sfRet.err /\ ret.infos = <<>>)

C4_Witness ==
    /\ pc = "m_ret"
    /\ sfRet.err = "timeout"
    /\ ret.err = "timeout"
    /\ shardInfos # <<>>

\* C5: no step of the scan changes a file or directory of the data root.
C5_FilesystemUntouched == [][fs' = fs]_vars

\* The k-th (from 1) of the positions of s whose format is not f.
KeptAt(s, f, k) ==
    CHOOSE i \in 1..Len(s) :
        /\ s[i].Format # f
        /\ Cardinality({j \in 1..(i - 1) : s[j].Format # f}) = k - 1

\* C6: Filter(f) returns exactly the entries of s whose format is not f, in
\* their order in s, and s is as it was.
C6_FilterKeepsOthersInOrder ==
    /\ [](op = "Filter" =>
            /\ Len(out) = Cardinality({i \in 1..Len(inv) : inv[i].Format # arg})
            /\ \A k \in 1..Len(out) : out[k] = inv[KeptAt(inv, arg, k)])
    /\ [][op' = "Filter" => inv' = inv]_vars

C6_Witness ==
    /\ op = "Filter"
    /\ inv = inv0
    /\ Len(inv) = 3
    /\ Len(out) = 2
    /\ inv[2].Format = arg
    /\ out[1] # out[2]

\* C7: Databases returns a strictly ascending list whose elements are
\* exactly the database values of s.
C7_DatabasesSortedDistinct ==
    op = "Databases" =>
        /\ \A i \in 1..(Len(out) - 1) : StrLess(out[i], out[i + 1])
        /\ {out[i] : i \in 1..Len(out)} = {inv[i].Database : i \in 1..Len(inv)}

C7_Witness ==
    /\ op = "Databases"
    /\ Len(inv) = 3
    /\ inv[1].Database = db2
    /\ inv[2].Database = dataDir
    /\ inv[3].Database = db2
    /\ out = <<dataDir, db2>>

AllInfos ==
    {shardInfos[i] : i \in 1..Len(shardInfos)}
    \cup {ret.infos[i] : i \in 1..Len(ret.infos)}
    \cup {shards[i] : i \in 1..Len(shards)}

\* C8: every ShardInfo the scan builds has a format of the enumeration, so
\* FormatAsString gives its label and does not panic; it panics exactly on
\* the values outside the enumeration.
C8_FormatsClosed ==
    /\ \A si \in AllInfos :
        /\ si.Format \in Formats
        /\ FormatAsString(si) = (CASE si.Format = b1 -> "b1"
                                   [] si.Format = bz1 -> "bz1"
                                   [] si.Format = tsm1 -> "tsm1")
    /\ \A f \in -1..3 : (FormatAsString([Format |-> f]) = "panic") <=> f \notin Formats

C8_Witness ==
    /\ pc = "m_filter"
    /\ {shards[i].Format : i \in 1..Len(shards)} = Formats

\* The order on (database, retentionPolicy).
KeyLess(x, y) ==
    \/ StrLess(x.Database, y.Database)
    \/ x.Database = y.Database /\ StrLess(x.RetentionPolicy, y.RetentionPolicy)

\* C9: Less orders by database, then by retentionPolicy, and reports neither
\* of two entries equal on both as less, whatever their paths; sort.Sort
\* leaves in the receiver the entries it held, ordered on (database,
\* retentionPolicy).
C9_LessIgnoresPath ==
    /\ op = "Less" => (out <=> KeyLess(inv[arg[1]], inv[arg[2]]))
    /\ op = "Sort" =>
        /\ Len(inv) = Len(inv0)
        /\ \A x \in InvInfos :
              Cardinality({i \in 1..Len(inv) : inv[i] = x})
                  = Cardinality({i \in 1..Len(inv0) : inv0[i] = x})
        /\ \A i, j \in 1..Len(inv) : i < j => ~KeyLess(inv[j], inv[i])

C9_Witness ==
    /\ op = "Sort"
    /\ \E i \in 1..(Len(inv) - 1) :
        /\ inv[i].Database = inv[i + 1].Database
        /\ inv[i].RetentionPolicy = inv[i + 1].RetentionPolicy
        /\ StrLess(inv[i + 1].Path, inv[i].Path)
    /\ \E i \in 1..(Len(inv) - 1) : KeyLess(inv[i], inv[i + 1])
    /\ inv # inv0

\* C10: a store handle is open only between bolt.Open and the return of the
\* shardFormat call that opened it, and it is that call's; so at most one is
\* open at a time and none once shardFormat or the scan has returned.
C10_HandlesClosed ==
    /\ Cardinality(handles) <= 1
    /\ handles \subseteq {sfPath}
    /\ pc \notin {"f_view", "f_ret"} => handles = {}

C10_Witness ==
    /\ pc = "s_got"
    /\ fs[sfPath].kind = "file"
    /\ sfRet.err = "nil"
    /\ sfRet.format = bz1
    /\ MetaFormatIs(fs[sfPath], "v2")
    /\ handles = {}

====
